---- MODULE Spec2Model ----
(***************************************************************************)
(* The command relay of houdini-mcp: the stdio-facing front end            *)
(* (src/houdini_mcp_server.py, HoudiniConnection) and the back-end command *)
(* server polled from Houdini's main thread (src/server.py,                *)
(* HoudiniMCPServer), joined by TCP connections on the loopback port.      *)
(*                                                                         *)
(* Bytes are modelled as tokens.  A JSON document is a token sequence:     *)
(*   "{" k1 k2 "}"   an object with two members (a command's type and      *)
(*                   params, a response's status and result/message),      *)
(*   "{" k1 "}", "{" "}"   objects with members left out,                   *)
(*   "1"             a JSON document that is not an object,                *)
(*   "w"             insignificant whitespace,                             *)
(*   "x"             a character no JSON document contains at that place,  *)
(*   "L" "T"         the two bytes of one non-ASCII character in UTF-8     *)
(*                   (a lead byte and its continuation byte),              *)
(*   "c"             one unit of a long string literal (a large script).   *)
(***************************************************************************)
EXTENDS Naturals, Sequences, FiniteSets, TLC

\* ------------------------------------------------------------------ bounds
\* Connections ever opened by the clients.
MaxConns == 2
\* Connections ever opened by the client that is not the front end.
MaxRawConns == 1
\* Tokens one direction of a TCP connection holds before a send would block.
SockBufCap == 5
\* Documents the raw client may send in all.
MaxRawDocs == 2
\* Calls of send_command the front end makes in all.
MaxCalls == 2
\* Calls of handlers made on the detailed scene in all.
MaxHandlerCalls == 2

\* --------------------------------------------------------- program constants
\* recv(8192) in both programs.
RecvMax == 8192
\* listen(1): connections the kernel queues for accept.
ListenBacklog == 1

\* ------------------------------------------------------------ sequences
Take(s, n) == SubSeq(s, 1, IF n < Len(s) THEN n ELSE Len(s))

Drop(s, n) == SubSeq(s, (IF n < Len(s) THEN n ELSE Len(s)) + 1, Len(s))

Range(s) == {s[i] : i \in 1..Len(s)}

\* ------------------------------------------------------------ UTF-8, JSON
\* bytes.decode('utf-8'): "L" "T" is one character (written "u_char" in the
\* decoded text); a lead byte with no continuation byte after it, or a
\* continuation byte with no lead byte, raises UnicodeDecodeError.
RECURSIVE Utf8Valid(_)
Utf8Valid(b) ==
    IF b = <<>> THEN TRUE
    ELSE IF Head(b) = "L" THEN Len(b) >= 2 /\ b[2] = "T" /\ Utf8Valid(Drop(b, 2))
    ELSE IF Head(b) = "T" THEN FALSE
    ELSE Utf8Valid(Tail(b))

RECURSIVE Utf8Text(_)
Utf8Text(b) ==
    IF b = <<>> THEN <<>>
    ELSE IF Head(b) = "L" THEN <<"u_char">> \o Utf8Text(Drop(b, 2))
    ELSE <<Head(b)>> \o Utf8Text(Tail(b))

Utf8Decode(b) ==
    IF Utf8Valid(b) THEN [ok |-> TRUE, text |-> Utf8Text(b)]
    ELSE [ok |-> FALSE, text |-> <<>>]

RECURSIVE StripLeft(_)
StripLeft(t) == IF t # <<>> /\ Head(t) = "w" THEN StripLeft(Tail(t)) ELSE t

RECURSIVE StripRight(_)
StripRight(t) ==
    IF t # <<>> /\ t[Len(t)] = "w" THEN StripRight(SubSeq(t, 1, Len(t) - 1)) ELSE t

\* The characters that are neither a member of an object nor a string unit.
Structural == {"{", "}", "w", "x", "1", "L", "T", "c"}

\* A run of string units: the long string literal of a large params value.
IsLongString(t) == t # <<>> /\ Range(t) = {"c"}

\* The value of a member: a string holding the non-ASCII character is the
\* same value whether the character was sent as UTF-8 bytes ("u_char" once
\* decoded) or as the ASCII escape json.dumps writes ("p_uni").
MemberValue(tok) == IF tok = "u_char" THEN "p_uni" ELSE tok

NoValue == [kind |-> "none", k1 |-> "", k2 |-> ""]

\* json.loads(text): the whole text must be one document, whitespace allowed
\* around it; anything else raises JSONDecodeError (ok = FALSE).
JsonLoads(text) ==
    LET t == StripRight(StripLeft(text))
        n == Len(t)
    IN  IF t = <<"1">>
          THEN [ok |-> TRUE, val |-> [kind |-> "scalar", k1 |-> "", k2 |-> ""]]
        ELSE IF n >= 2 /\ t[1] = "{" /\ t[n] = "}"
          THEN IF n = 2
                 THEN [ok |-> TRUE, val |-> [kind |-> "obj", k1 |-> "", k2 |-> ""]]
               ELSE IF t[2] \in Structural
                 THEN [ok |-> FALSE, val |-> NoValue]
               ELSE IF n = 3
                 THEN [ok |-> TRUE, val |-> [kind |-> "obj", k1 |-> t[2], k2 |-> ""]]
               ELSE IF n = 4 /\ t[3] \notin Structural
                 THEN [ok |-> TRUE,
                       val |-> [kind |-> "obj", k1 |-> t[2], k2 |-> MemberValue(t[3])]]
               ELSE IF IsLongString(SubSeq(t, 3, n - 1))
                 THEN [ok |-> TRUE, val |-> [kind |-> "obj", k1 |-> t[2], k2 |-> "p_big"]]
               ELSE [ok |-> FALSE, val |-> NoValue]
        ELSE [ok |-> FALSE, val |-> NoValue]

\* The front end's and the back end's read test: decode, then parse.
\* UnicodeDecodeError is not a JSONDecodeError.
ParseBytes(b) ==
    LET d == Utf8Decode(b)
    IN  IF ~d.ok THEN [err |-> "unicode", val |-> NoValue]
        ELSE LET j == JsonLoads(d.text)
             IN  IF j.ok THEN [err |-> "none", val |-> j.val]
                 ELSE [err |-> "json", val |-> NoValue]

\* ------------------------------------------------------- the host: Houdini
\* The node the modelled commands name: create_node's name "foo" under
\* "/obj", and the path "/obj/foo" of the other node commands.
Foo == "/obj/foo"

NodePaths == {Foo}

\* ----------------------------------------------------- handlers and dispatch
\* The dispatch table of _execute_command_internal.
AlwaysHandlers ==
    {"get_scene_info", "create_node", "modify_node", "delete_node",
     "get_node_info", "execute_code", "set_material", "get_asset_lib_status"}

AssetHandlers == {"get_asset_categories", "search_assets", "import_asset"}

\* A table built once, before the flag was ever set.
HandlersBuiltOnce(flag) == AlwaysHandlers

\* handlers, after handlers.update(asset_handlers) when the flag is set.
Handlers(flag) == AlwaysHandlers \cup (IF flag THEN AssetHandlers ELSE {})

\* Handlers whose only parameter is self.
NoArgHandlers ==
    {"get_scene_info", "get_asset_lib_status"} \cup AssetHandlers

\* A call that binds whatever the params are.
FitsAnything(type, p) == TRUE

\* handler(**params) binds: params "p_ok" are the well-formed arguments of
\* the handler (none for a handler without parameters), "" is a command with
\* no params member (params = {}), "p_uni" names a path with a non-ASCII
\* character ("/é", which no node has), "p_big" is {"code": <a long
\* script>}, "p_bad" has a key the handler does not take, "p_str" is a params
\* member that is a string, not an object.  A call that does not bind raises
\* TypeError before the handler's body runs.
Fits(type, p) ==
    IF type \in NoArgHandlers THEN p \in {"", "p_ok"}
    ELSE IF type = "execute_code" THEN p \in {"p_ok", "p_uni", "p_big"}
    ELSE p \in {"p_ok", "p_uni"}

Returned(v, sc) == [raised |-> FALSE, val |-> v, scene |-> sc]

Raised(m, sc) == [raised |-> TRUE, val |-> m, scene |-> sc]

PathOf(p) == IF p = "p_uni" THEN "/\\u00e9" ELSE Foo

get_scene_info(p, sc, flag) ==
    Returned(IF Foo \in sc THEN "{name: Untitled, nodes: [/obj/foo]}"
             ELSE "{name: Untitled, nodes: []}", sc)

create_node(p, sc, flag) ==
    IF p = "p_uni"
      THEN Raised("Failed to create node: Parent path not found: /\\u00e9", sc)
    ELSE IF Foo \in sc
      THEN Returned("{name: foo1, path: /obj/foo1, type: geo}", sc)
    ELSE Returned("{name: foo, path: /obj/foo, type: geo}", sc \cup {Foo})

modify_node(p, sc, flag) ==
    IF PathOf(p) \notin sc THEN Raised("Node not found: " \o PathOf(p), sc)
    ELSE Returned("{path: /obj/foo, changes: []}", sc)

delete_node(p, sc, flag) ==
    IF PathOf(p) \notin sc THEN Raised("Node not found: " \o PathOf(p), sc)
    ELSE Returned("{deleted: /obj/foo, name: foo}", sc \ {PathOf(p)})

get_node_info(p, sc, flag) ==
    IF PathOf(p) \notin sc THEN Raised("Node not found: " \o PathOf(p), sc)
    ELSE Returned("{name: foo, path: /obj/foo, parameters: []}", sc)

execute_code(p, sc, flag) == Returned("{executed: true}", sc)

set_material(p, sc, flag) ==
    IF PathOf(p) \notin sc
      THEN Returned("{status: error, message: Node not found, node: "
                    \o PathOf(p) \o "}", sc)
    ELSE Returned("{status: ok, applied_to: /obj/foo}", sc)

get_asset_lib_status(p, sc, flag) ==
    Returned(IF flag THEN "{enabled: true}" ELSE "{enabled: false}", sc)

get_asset_categories(p, sc, flag) ==
    Returned("{error: get_asset_categories not implemented}", sc)

search_assets(p, sc, flag) ==
    Returned("{error: search_assets not implemented}", sc)

import_asset(p, sc, flag) ==
    Returned("{error: import_asset not implemented}", sc)

\* handler(**params) for the handler the table gives for type.
CallHandler(type, p, sc, flag) ==
    IF ~Fits(type, p) THEN Raised("TypeError: " \o type \o "()", sc)
    ELSE CASE type = "get_scene_info" -> get_scene_info(p, sc, flag)
           [] type = "create_node" -> create_node(p, sc, flag)
           [] type = "modify_node" -> modify_node(p, sc, flag)
           [] type = "delete_node" -> delete_node(p, sc, flag)
           [] type = "get_node_info" -> get_node_info(p, sc, flag)
           [] type = "execute_code" -> execute_code(p, sc, flag)
           [] type = "set_material" -> set_material(p, sc, flag)
           [] type = "get_asset_lib_status" -> get_asset_lib_status(p, sc, flag)
           [] type = "get_asset_categories" -> get_asset_categories(p, sc, flag)
           [] type = "search_assets" -> search_assets(p, sc, flag)
           [] type = "import_asset" -> import_asset(p, sc, flag)

Success(r) == [status |-> "success", result |-> r]

Error(m) == [status |-> "error", message |-> m]

\* cmd_type as the f-string prints it: a command with no type member has
\* cmd_type None.
TypeName(k1) == IF k1 = "" THEN "None" ELSE k1

\* A dispatcher that wraps the unknown-type text as a result.
UnknownCommandAsResult(type) == Success("Unknown command type: " \o TypeName(type))

\* The response to a type the table does not hold.
UnknownCommand(type) == Error("Unknown command type: " \o TypeName(type))

\* _execute_command_internal(command) on a JSON object: the response it
\* returns or the exception it lets through, and the scene afterwards.
ExecuteCommandInternal(command, sc, flag) ==
    IF command.k1 \notin Handlers(flag)
      THEN [raised |-> FALSE, resp |-> UnknownCommand(command.k1), scene |-> sc]
    ELSE LET h == CallHandler(command.k1, command.k2, sc, flag)
         IN  IF h.raised
               THEN [raised |-> TRUE, resp |-> Error(h.val), scene |-> h.scene]
             ELSE [raised |-> FALSE, resp |-> Success(h.val), scene |-> h.scene]

\* execute_command(command): any exception of the dispatcher or the handler
\* becomes the error envelope; command.get raises AttributeError when the
\* document is not an object.
ExecuteCommand(command, sc, flag) ==
    IF command.kind # "obj"
      THEN [resp |-> Error("'int' object has no attribute 'get'"),
            scene |-> sc, raised |-> TRUE]
    ELSE LET r == ExecuteCommandInternal(command, sc, flag)
         IN  [resp |-> r.resp, scene |-> r.scene, raised |-> r.raised]

\* json.dumps of a response or of a command: ASCII only (a non-ASCII
\* character is written as an escape, inside the member's token).
DumpsResponse(resp) ==
    <<"{", resp.status,
      IF resp.status = "success" THEN resp.result ELSE resp.message, "}">>

\* Units of the long script of a "p_big" command: more than a socket holds.
BigLen == SockBufCap + 1

DumpsCommand(type, p) ==
    IF p = "p_big" THEN <<"{", type>> \o [i \in 1..BigLen |-> "c"] \o <<"}">>
    ELSE IF p = "" THEN <<"{", type, "}">>
    ELSE <<"{", type, p, "}">>

\* ---- the scene in detail
\* The contexts get_scene_info visits, in its order, and /mat.
ContextOrder == <<"obj", "shop", "out", "ch", "vex", "stage">>

Contexts == Range(ContextOrder) \cup {"mat"}

\* len(top_nodes) >= 10.
TopNodesMax == 10

\* A node: its name, its position, its parameters with their values, and
\* what it holds inside: nothing, a "geometry" node, or a "geometry" node
\* with a "material1" in it that has ("material") or has not ("other") the
\* parameter shop_materialpath1.
NewNode(name, type) ==
    [name |-> name, type |-> type, pos |-> <<0, 0>>,
     parms |-> IF type = "geo"
                 THEN [q \in {"tx", "shop_materialpath"} |-> IF q = "tx" THEN "0" ELSE ""]
               ELSE [q \in {"tx"} |-> "0"],
     inner |-> "none", material |-> ""]

\* The node types createNode knows here; any other makes it raise.
NodeTypes == {"geo", "subnet", "principledshader"}

\* A context that hou.node does not find, and one without children.
NoContext == [exists |-> FALSE, children |-> <<>>]

EmptyContext == [exists |-> TRUE, children |-> <<>>]

EmptyScene == [c \in Contexts |-> IF c = "obj" THEN EmptyContext ELSE NoContext]

\* node.path().
PathStr(ctx, name) == "/" \o ctx \o "/" \o name

\* hou.node(path) for the path of a child of a context: its place among
\* the children, 0 when there is none.
Place(h, path) ==
    IF path.ctx \notin Contexts \/ ~h[path.ctx].exists THEN 0
    ELSE LET kids == h[path.ctx].children
             found == {i \in 1..Len(kids) : kids[i].name = path.name}
         IN  IF found = {} THEN 0 ELSE CHOOSE i \in found : TRUE

\* A listing that stops at the limit within a context only: each context
\* gives up to the limit.
RECURSIVE TopNodesEach(_, _, _)
TopNodesEach(h, order, acc) ==
    IF order = <<>> THEN acc
    ELSE TopNodesEach(h, Tail(order),
             acc \o [i \in 1..Len(Take(h[Head(order)].children, TopNodesMax)) |->
                        [name |-> h[Head(order)].children[i].name,
                         path |-> PathStr(Head(order), h[Head(order)].children[i].name),
                         type |-> h[Head(order)].children[i].type,
                         category |-> Head(order)]])

\* The entries get_scene_info makes of a context's children.
RECURSIVE TopNodes(_, _, _)
TopNodes(h, order, acc) ==
    IF order = <<>> \/ Len(acc) >= TopNodesMax THEN acc
    ELSE LET c == Head(order)
             kids == IF h[c].exists THEN h[c].children ELSE <<>>
             room == TopNodesMax - Len(acc)
             took == Take(kids, room)
         IN  TopNodes(h, Tail(order),
                      acc \o [i \in 1..Len(took) |->
                                 [name |-> took[i].name,
                                  path |-> PathStr(c, took[i].name),
                                  type |-> took[i].type,
                                  category |-> c]])

\* len(hou.node("/").allSubChildren()), of the contexts and their children.
NodeCount(h) ==
    LET all == ContextOrder \o <<"mat">>
        inside[c \in Contexts] ==
            [i \in 1..Len(h[c].children) |->
                CASE h[c].children[i].inner = "none" -> 1
                  [] h[c].children[i].inner = "geometry" -> 2
                  [] OTHER -> 3]
        sum[c \in Contexts] ==
            LET t[i \in 0..Len(inside[c])] == IF i = 0 THEN 0 ELSE t[i - 1] + inside[c][i]
            IN  t[Len(inside[c])]
        n[i \in 0..Len(all)] ==
            IF i = 0 THEN 0
            ELSE n[i - 1] + (IF h[all[i]].exists THEN 1 + sum[all[i]] ELSE 0)
    IN  n[Len(all)]

\* What a handler called on the scene h leaves: the scene and its result or
\* exception.
Gave(val, h) == [raised |-> FALSE, val |-> val, hou |-> h]

Threw(msg, h) == [raised |-> TRUE, val |-> [message |-> msg], hou |-> h]

\* A get_scene_info that leaves a mark in the scene.
GetSceneInfoMarking(h) ==
    Gave([name |-> "Untitled", filepath |-> "", node_count |-> NodeCount(h),
          nodes |-> TopNodes(h, ContextOrder, <<>>)],
         [h EXCEPT !["ch"].children = Append(@, NewNode("mark", "geo"))])

\* get_scene_info().
GetSceneInfo(h) ==
    Gave([name |-> "Untitled", filepath |-> "", node_count |-> NodeCount(h),
          nodes |-> TopNodes(h, ContextOrder, <<>>)], h)

\* The children of a context without the one at place i, and with the one
\* at place i replaced.
Without(kids, i) == SubSeq(kids, 1, i - 1) \o SubSeq(kids, i + 1, Len(kids))

NamesOf(kids) == {kids[i].name : i \in 1..Len(kids)}

\* parm.set(p_val) for each of the parameters the node has, in the order
\* given; a name that is no parameter of the node is passed over.  The log
\* holds, for each one set, its name, the value before and the value given.
\* A log kept with the latest entry first.
RECURSIVE SetParmsFront(_, _, _)
SetParmsFront(node, parameters, log) ==
    IF parameters = <<>> THEN [node |-> node, log |-> log]
    ELSE IF Head(parameters)[1] \in DOMAIN node.parms
      THEN SetParmsFront([node EXCEPT !.parms[Head(parameters)[1]] = Head(parameters)[2]],
                         Tail(parameters),
                         <<[change |-> "parameter", name |-> Head(parameters)[1],
                            old |-> node.parms[Head(parameters)[1]],
                            new |-> Head(parameters)[2]]>> \o log)
    ELSE SetParmsFront(node, Tail(parameters), log)

RECURSIVE SetParms(_, _, _)
SetParms(node, parameters, log) ==
    IF parameters = <<>> THEN [node |-> node, log |-> log]
    ELSE LET k == Head(parameters)[1]
             v == Head(parameters)[2]
         IN  IF k \in DOMAIN node.parms
               THEN SetParms([node EXCEPT !.parms[k] = v], Tail(parameters),
                             Append(log, [change |-> "parameter", name |-> k,
                                          old |-> node.parms[k], new |-> v]))
             ELSE SetParms(node, Tail(parameters), log)

\* node.setPosition([position[0], position[1]]) when the position given has
\* two entries or more.
Positioned(node, position) ==
    IF Len(position) >= 2 THEN [node EXCEPT !.pos = <<position[1], position[2]>>]
    ELSE node

\* A delete_node that answers for a node that is not there.
DeleteNodeLenient(h, path) ==
    Gave([deleted |-> PathStr(path.ctx, path.name), name |-> path.name],
         IF Place(h, path) = 0 THEN h
         ELSE [h EXCEPT ![path.ctx].children = Without(@, Place(h, path))])

\* delete_node(path).
DeleteNode(h, path) ==
    LET i == Place(h, path)
        node == h[path.ctx].children[i]
    IN  IF i = 0 THEN Threw("Node not found: " \o PathStr(path.ctx, path.name), h)
        ELSE Gave([deleted |-> PathStr(path.ctx, node.name), name |-> node.name],
                  [h EXCEPT ![path.ctx].children = Without(@, i)])

\* modify_node(path, parameters, position, name).  An absent or empty
\* argument is "" for the name and <<>> for the others.  setName raises
\* when a sibling has the name.
ModifyNode(h, path, parameters, position, name) ==
    LET i == Place(h, path)
        node == h[path.ctx].children[i]
        renames == name # "" /\ name # node.name
        n1 == IF renames THEN [node EXCEPT !.name = name] ELSE node
        log1 == IF renames
                  THEN <<[change |-> "rename", old |-> node.name, new |-> name]>>
                ELSE <<>>
        n2 == Positioned(n1, position)
        log2 == IF Len(position) >= 2
                  THEN Append(log1, [change |-> "position", position |-> position])
                ELSE log1
        done == SetParms(n2, parameters, log2)
    IN  IF i = 0 THEN Threw("Node not found: " \o PathStr(path.ctx, path.name), h)
        ELSE IF renames /\ name \in NamesOf(h[path.ctx].children)
          THEN Threw("Invalid node name", h)
        ELSE Gave([path |-> PathStr(path.ctx, done.node.name), changes |-> done.log],
                  [h EXCEPT ![path.ctx].children[i] = done.node])

\* The name createNode gives: the one asked for, the type's name with a
\* digit when none is asked for, and a further digit when that is taken.
NodeName(kids, type, name) ==
    LET base == IF name = "" THEN type \o "1" ELSE name
    IN  IF base \in NamesOf(kids) THEN base \o "1" ELSE base

\* create_node(node_type, parent_path, name, position, parameters), the
\* parent being a context.  Every exception is raised anew with the prefix.
CreateNode(h, node_type, parent, name, position, parameters) ==
    IF parent \notin Contexts \/ ~h[parent].exists
      THEN Threw("Failed to create node: Parent path not found: /" \o parent, h)
    ELSE IF node_type \notin NodeTypes
      THEN Threw("Failed to create node: Invalid node type name", h)
    ELSE LET made == NewNode(NodeName(h[parent].children, node_type, name), node_type)
             node == SetParms(Positioned(made, position), parameters, <<>>).node
         IN  Gave([name |-> node.name, path |-> PathStr(parent, node.name),
                   type |-> node_type, position |-> node.pos],
                  [h EXCEPT ![parent].children = Append(@, node)])

\* A set_material without its except clause.
MaterialRaise(msg, node_path, h) == Threw(msg, h)

\* The structured error result of set_material's except clause.
MaterialError(msg, node_path, h) ==
    Gave([status |-> "error", message |-> msg,
          node |-> PathStr(node_path.ctx, node_path.name)], h)

\* The body of set_material's try block from the material context on: the
\* target is the Object node at place i of /obj.  The material node is
\* found or created in ctx and given the parameters; then the target's
\* shop_materialpath is set, or else the material1 inside its geometry node,
\* made when there is none.
ApplyMaterial(h, i, node_path, ctx, material_type, name, parameters) ==
    LET mat_name == IF name # "" THEN name ELSE material_type \o "_auto"
        j == Place(h, [ctx |-> ctx, name |-> mat_name])
        h1 == IF j # 0 THEN h
              ELSE [h EXCEPT ![ctx].children = Append(@, NewNode(mat_name, material_type))]
        k == IF j # 0 THEN j ELSE Len(h1[ctx].children)
        h2 == [h1 EXCEPT ![ctx].children[k] = SetParms(@, parameters, <<>>).node]
        mat_path == PathStr(ctx, mat_name)
        target == h2["obj"].children[i]
        ok(h3) == Gave([status |-> "ok", material_node |-> mat_path,
                        applied_to |-> PathStr("obj", target.name)], h3)
    IN  IF j = 0 /\ material_type \notin NodeTypes
          THEN MaterialError("Invalid node type name", node_path, h)
        ELSE IF "shop_materialpath" \in DOMAIN target.parms
          THEN ok([h2 EXCEPT !["obj"].children[i].parms["shop_materialpath"] = mat_path])
        ELSE IF target.inner = "none"
          THEN MaterialError("No 'geometry' node found inside OBJ to apply material to.",
                             node_path, h2)
        ELSE IF target.inner = "other"
          THEN MaterialError("No shop_materialpath1 on Material SOP to assign the material.",
                             node_path, h2)
        ELSE ok([h2 EXCEPT !["obj"].children[i].inner = "material",
                           !["obj"].children[i].material = mat_path])

\* set_material(node_path, material_type, name, parameters).
SetMaterial(h, node_path, material_type, name, parameters) ==
    LET i == Place(h, node_path)
        where == PathStr(node_path.ctx, node_path.name)
    IN  IF i = 0 THEN MaterialError("Node not found: " \o where, node_path, h)
        ELSE IF node_path.ctx # "obj"
          THEN MaterialError("Node " \o where \o
                             " is not an OBJ-level node and cannot accept direct materials.",
                             node_path, h)
        ELSE IF h["mat"].exists
          THEN ApplyMaterial(h, i, node_path, "mat", material_type, name, parameters)
        ELSE IF h["shop"].exists
          THEN ApplyMaterial(h, i, node_path, "shop", material_type, name, parameters)
        ELSE MaterialError("No /mat or /shop context found to create materials.",
                           node_path, h)

\* No handler has been called on the scene yet.
NoCall ==
    [n |-> 0, op |-> "none", prev |-> "none", args |-> [none |-> TRUE],
     raised |-> FALSE, val |-> [none |-> TRUE], resp |-> [status |-> "none"]]

\* ------------------------------------------------------------------ state
VARIABLES
    running,    \* HoudiniMCPServer.running
    lsock,      \* HoudiniMCPServer.socket is a listening socket (not None)
    client,     \* HoudiniMCPServer.client: a connection, or 0 for None
    buffer,     \* HoudiniMCPServer.buffer
    scene,      \* the node paths of Houdini's scene
    assetlib,   \* hou.session.houdinimcp_use_assetlib
    conns,      \* the TCP connections: both ends and the bytes in flight
    backlog,    \* connections established and not yet accepted, oldest first
    nextConn,   \* the next connection to be opened
    feSock,     \* HoudiniConnection.sock: a connection, or 0 for None
    feTimeout,  \* whether settimeout(10.0) has been called on feSock
    fePc,       \* where send_command is: "idle", "sendall" or "recv"
    feOut,      \* the bytes sendall has still to write
    feChunks,   \* b"".join(chunks)
    feCalls,    \* calls of send_command begun
    feRes,      \* how the last front-end operation ended
    feGlobal,   \* _houdini_connection is not None
    feTool,     \* the tool whose invocation is under way or was the last, or ""
    toolRet,    \* what the last tool invocation returned
    rawSock,    \* the connection of another client of the port, or 0
    rawOut,     \* the bytes that client has still to send of its document
    rawDocs,    \* documents that client has begun
    rawConns,   \* connections that client has opened
    ev,         \* what the last step of the back end did
    hou,        \* Houdini's scene in detail, as the handlers called on it see it
    call,       \* the last call of a handler on hou: arguments, result, the call before
    sent        \* history: per send_command call, the connection and command it
                \* wrote, and how often and in which place the back end dispatched it

vars == <<running, lsock, client, buffer, scene, assetlib, conns, backlog,
          nextConn, feSock, feTimeout, fePc, feOut, feChunks, feCalls, feRes,
          feGlobal, feTool, toolRet, rawSock, rawOut, rawDocs, rawConns, ev,
          hou, call, sent>>

beVars == <<running, lsock, client, buffer>>

hostVars == <<scene, assetlib>>

netVars == <<conns, backlog, nextConn>>

toolVars == <<feGlobal, feTool, toolRet>>

feVars == <<feSock, feTimeout, fePc, feOut, feChunks, feCalls, feRes, toolVars>>

rawVars == <<rawSock, rawOut, rawDocs, rawConns>>

sceneVars == <<hou, call>>

Conn == 1..MaxConns

NoConn == [cl |-> "none", sv |-> "none", c2s |-> <<>>, s2c |-> <<>>]

NoResp == [status |-> "none"]

\* The record of a step that is neither a poll tick nor a call of the front
\* end.  Of a poll tick it holds: the connection accepted, the client read,
\* the bytes received, the bytes parsed (the buffer with them appended), the
\* outcome, the command, the response and whether it stands for an
\* exception, how sendall ended and what it wrote.  Of a front-end call it
\* holds the call's name and, as conn, the socket held when it began.
NoEvent ==
    [op |-> "none", accepted |-> 0, conn |-> 0, data |-> <<>>, buf |-> <<>>,
     outcome |-> "none", cmd |-> NoValue, resp |-> NoResp, raised |-> FALSE,
     send |-> "none", wrote |-> <<>>]

FeEvent(op) == [NoEvent EXCEPT !.op = op, !.conn = feSock]

NoResult == [kind |-> "none", val |-> NoValue, conn |-> 0]

\* No tool has returned yet.
NoReturn == [kind |-> "none", text |-> ""]

InitRelay ==
    /\ running = FALSE
    /\ lsock = FALSE
    /\ client = 0
    /\ buffer = <<>>
    /\ scene = {}
    /\ assetlib = FALSE
    /\ conns = [c \in Conn |-> NoConn]
    /\ backlog = <<>>
    /\ nextConn = 1
    /\ feSock = 0
    /\ feTimeout = FALSE
    /\ fePc = "idle"
    /\ feOut = <<>>
    /\ feChunks = <<>>
    /\ feCalls = 0
    /\ feRes = NoResult
    /\ feGlobal = FALSE
    /\ feTool = ""
    /\ toolRet = NoReturn
    /\ rawSock = 0
    /\ rawOut = <<>>
    /\ rawDocs = 0
    /\ rawConns = 0
    /\ ev = NoEvent
    /\ sent = <<>>

Init ==
    /\ InitRelay
    /\ hou = EmptyScene
    /\ call = NoCall

\* ------------------------------------------------------------ the network
\* One end of a connection after close(): the bytes it had not read are
\* gone, and so is everything once both ends are closed.
ClientClosed(c) ==
    [c EXCEPT !.cl = "closed", !.s2c = <<>>,
              !.c2s = IF c.sv = "closed" THEN <<>> ELSE c.c2s]

ServerClosed(c) ==
    [c EXCEPT !.sv = "closed", !.c2s = <<>>,
              !.s2c = IF c.cl = "closed" THEN <<>> ELSE c.s2c]

\* socket.connect to the port: the kernel completes the handshake when the
\* port is listening and its accept queue has room.
CanConnect == lsock /\ Len(backlog) < ListenBacklog

Connected(cn, c) == [cn EXCEPT ![c] = [NoConn EXCEPT !.cl = "open", !.sv = "pending"]]

Space(q) == IF Len(q) < SockBufCap THEN SockBufCap - Len(q) ELSE 0

\* ------------------------------------------------------------ the back end
\* start(): bind and listen, and start the timer that polls; a bind that
\* fails ends in stop().
Start ==
    /\ ~running
    /\ \E bound \in BOOLEAN :
        /\ running' = bound
        /\ lsock' = bound
    /\ UNCHANGED <<sent, sceneVars, client, buffer, hostVars, netVars, feVars, rawVars>>
    /\ ev' = NoEvent

\* stop(): the timer stops, the listening socket and the client are closed
\* and both handles set to None.  Closing the listening socket resets the
\* connections still waiting in its accept queue.
Stopped(cn) ==
    [c \in Conn |->
        IF c = client \/ c \in Range(backlog) THEN ServerClosed(cn[c]) ELSE cn[c]]

\* A stop() that leaves the client as it is.
StopKeepsClient ==
    /\ running
    /\ running' = FALSE
    /\ lsock' = FALSE
    /\ conns' = [c \in Conn |->
                    IF c \in Range(backlog) THEN ServerClosed(conns[c]) ELSE conns[c]]
    /\ backlog' = <<>>
    /\ UNCHANGED <<sent, sceneVars, client, buffer, hostVars, nextConn, feVars, rawVars>>
    /\ ev' = NoEvent

Stop ==
    /\ running
    /\ running' = FALSE
    /\ lsock' = FALSE
    /\ client' = 0
    /\ conns' = Stopped(conns)
    /\ backlog' = <<>>
    /\ UNCHANGED <<sent, sceneVars, buffer, hostVars, nextConn, feVars, rawVars>>
    /\ ev' = NoEvent

\* An accept made on every tick, with a client held or not.
AcceptAlways ==
    IF lsock /\ backlog # <<>>
      THEN [client |-> Head(backlog), backlog |-> Tail(backlog),
            conns |-> [conns EXCEPT ![Head(backlog)].sv = "accepted"],
            accepted |-> Head(backlog)]
    ELSE [client |-> client, backlog |-> backlog, conns |-> conns, accepted |-> 0]

\* An accept that serves the newest connection: with a client held, the
\* waiting connection becomes the client and the client waits in its place.
AcceptSwaps ==
    IF lsock /\ backlog # <<>>
      THEN [client |-> Head(backlog),
            backlog |-> IF client = 0 THEN Tail(backlog)
                        ELSE Tail(backlog) \o <<client>>,
            conns |-> IF client = 0
                        THEN [conns EXCEPT ![Head(backlog)].sv = "accepted"]
                      ELSE [conns EXCEPT ![Head(backlog)].sv = "accepted",
                                         ![client].sv = "pending"],
            accepted |-> Head(backlog)]
    ELSE [client |-> client, backlog |-> backlog, conns |-> conns, accepted |-> 0]

\* The accept of a poll tick: only without a client, and only the oldest
\* waiting connection; no waiting connection is BlockingIOError, passed over.
AcceptPhase ==
    IF client = 0 /\ lsock /\ backlog # <<>>
      THEN [client |-> Head(backlog), backlog |-> Tail(backlog),
            conns |-> [conns EXCEPT ![Head(backlog)].sv = "accepted"],
            accepted |-> Head(backlog)]
    ELSE [client |-> client, backlog |-> backlog, conns |-> conns, accepted |-> 0]

\* client.sendall(bytes) on the non-blocking client socket: what fits in the
\* socket's send buffer is written; when not everything fits, the rest is not
\* written and BlockingIOError is raised.  After the peer has closed, the
\* bytes go nowhere, and the call raises (a reset) or not: fails says which.
SendAll(c, out, fails) ==
    IF c.cl = "closed"
      THEN [conn |-> c, result |-> IF fails THEN "error" ELSE "ok", wrote |-> <<>>]
    ELSE IF Len(out) <= Space(c.s2c)
      THEN [conn |-> [c EXCEPT !.s2c = @ \o out], result |-> "ok", wrote |-> out]
    ELSE [conn |-> [c EXCEPT !.s2c = @ \o Take(out, Space(c.s2c))],
          result |-> "blocked", wrote |-> Take(out, Space(c.s2c))]

\* What one poll tick leaves: the back end's fields, the scene, the
\* connections, and the record of what it did.
Tick(cn, cl, buf, sc, what) ==
    [conns |-> cn, client |-> cl, buffer |-> buf, scene |-> sc, what |-> what]

What(outcome, data) ==
    [outcome |-> outcome, data |-> data, buf |-> buffer \o data, cmd |-> NoValue,
     resp |-> NoResp, raised |-> FALSE, send |-> "none", wrote |-> <<>>]

\* client.close(); client = None; buffer = b''.
DropClient(cn, cl, sc, what) ==
    Tick([cn EXCEPT ![cl] = ServerClosed(cn[cl])], 0, <<>>, sc, what)

\* client.recv(8192) on the client of this tick: the bytes it returns (none
\* when it raises BlockingIOError or returns b'').
Received(a) ==
    IF a.client = 0 THEN <<>> ELSE Take(a.conns[a.client].c2s, RecvMax)

\* A recv that leaves in the socket the bytes it returns.
AfterRecvPeeks(a) == a.conns

\* The connections once recv has taken those bytes.
AfterRecv(a) ==
    IF a.client = 0 THEN a.conns
    ELSE [a.conns EXCEPT ![a.client].c2s = Drop(@, RecvMax)]

\* A parsed command: the buffer is cleared, the command executed (x) and
\* the response written with sendall (s).  BlockingIOError from sendall is
\* passed over by the handler meant for recv; any other error of the send
\* drops the client.
OnCommand(cn, cl, data, command, x, s) ==
    IF s.result = "error"
      THEN DropClient([cn EXCEPT ![cl] = s.conn], cl, x.scene,
                      [What("dispatch", data) EXCEPT
                          !.cmd = command, !.resp = x.resp, !.raised = x.raised,
                          !.send = s.result, !.wrote = s.wrote])
    ELSE Tick([cn EXCEPT ![cl] = s.conn], cl, <<>>, x.scene,
              [What("dispatch", data) EXCEPT
                  !.cmd = command, !.resp = x.resp, !.raised = x.raised,
                  !.send = s.result, !.wrote = s.wrote])

\* How the parse (pr) of the buffer with the received bytes is handled:
\* JSONDecodeError keeps the bytes buffered; UnicodeDecodeError is not a
\* JSONDecodeError and reaches the outer handler, which drops the client.
OnData(cn, cl, data, pr, x, s) ==
    IF pr.err = "json" THEN Tick(cn, cl, buffer \o data, scene, What("buffered", data))
    ELSE IF pr.err = "unicode"
      THEN DropClient(cn, cl, scene, What("decode_error", data))
    ELSE OnCommand(cn, cl, data, pr.val, x, s)

\* The receive of a poll tick, after its accept (a): bytes are appended and
\* parsed, b'' is the peer's close, BlockingIOError is no data.
ProcessClient(a, data, pr, x, s) ==
    IF a.client = 0
      THEN Tick(a.conns, 0, buffer, scene, What("no_client", <<>>))
    ELSE IF data # <<>>
      THEN OnData(AfterRecv(a), a.client, data, pr, x, s)
    ELSE IF a.conns[a.client].cl = "closed"
      THEN DropClient(a.conns, a.client, scene, What("eof", <<>>))
    ELSE Tick(a.conns, a.client, buffer, scene, What("no_data", <<>>))

\* The history of a send_command call that writes cmd on connection c (0
\* when it could not connect and wrote nothing).
Writing(c, cmd) == [conn |-> c, cmd |-> cmd, n |-> 0, at |-> 0]

\* The calls that wrote on connection c.
Writers(s, c) == {k \in DOMAIN s : s[k].conn = c}

\* The history after a poll tick on client c: a dispatch is counted for the
\* latest call that wrote on c, with its place among the calls dispatched.
Noted(s, c, outcome) ==
    IF outcome # "dispatch" \/ Writers(s, c) = {} THEN s
    ELSE LET k == CHOOSE w \in Writers(s, c) : \A v \in Writers(s, c) : v <= w
         IN [s EXCEPT ![k].n = @ + 1,
                      ![k].at = IF @ = 0
                                  THEN 1 + Cardinality({j \in DOMAIN s : s[j].n > 0})
                                ELSE @]

\* _process_server: one tick of the timer.
Poll ==
    /\ running
    /\ \E fails \in BOOLEAN, a \in {AcceptPhase} :
       \E data \in {Received(a)} :
       \E pr \in {ParseBytes(buffer \o data)} :
       \E x \in {ExecuteCommand(pr.val, scene, assetlib)} :
       \E s \in {SendAll(AfterRecv(a)[IF a.client = 0 THEN 1 ELSE a.client],
                         DumpsResponse(x.resp), fails)} :
       \E r \in {ProcessClient(a, data, pr, x, s)} :
            /\ fails => r.what.send = "error"
            /\ client' = r.client
            /\ buffer' = r.buffer
            /\ scene' = r.scene
            /\ conns' = r.conns
            /\ backlog' = a.backlog
            /\ ev' = [op |-> "poll", accepted |-> a.accepted, conn |-> a.client,
                      data |-> r.what.data, buf |-> r.what.buf,
                      outcome |-> r.what.outcome, cmd |-> r.what.cmd,
                      resp |-> r.what.resp, raised |-> r.what.raised,
                      send |-> r.what.send, wrote |-> r.what.wrote]
            /\ sent' = Noted(sent, a.client, r.what.outcome)
    /\ UNCHANGED <<sceneVars, running, lsock, assetlib, nextConn, feVars, rawVars>>

\* The user sets or clears hou.session.houdinimcp_use_assetlib.
ToggleAssetLib ==
    /\ assetlib' = ~assetlib
    /\ UNCHANGED <<sent, sceneVars, beVars, scene, netVars, feVars, rawVars>>
    /\ ev' = NoEvent

\* ------------------------------------------------ another client of the port
\* The documents that client sends, whole or in pieces: commands as
\* json.dumps writes them, a command whose params hold a non-ASCII character
\* sent as UTF-8, and a byte that makes the buffer no JSON document whatever
\* follows.
RawDocuments ==
    { DumpsCommand("get_scene_info", "p_ok"),
      DumpsCommand("delete_node", "p_ok"),
      DumpsCommand("search_assets", ""),
      DumpsCommand("bogus", "p_ok"),
      <<"{", "delete_node", "L", "T", "}">>,
      <<"x">> }

RawConnect ==
    /\ rawSock = 0
    /\ rawConns < MaxRawConns
    /\ nextConn <= MaxConns
    /\ CanConnect
    /\ rawSock' = nextConn
    /\ rawConns' = rawConns + 1
    /\ conns' = Connected(conns, nextConn)
    /\ backlog' = Append(backlog, nextConn)
    /\ nextConn' = nextConn + 1
    /\ UNCHANGED <<sent, sceneVars, beVars, hostVars, feVars, rawOut, rawDocs>>
    /\ ev' = NoEvent

\* Documents that parse and are no command a handler takes: params with a
\* key the handler has not, without the key it requires, or that are no
\* object, and a document that is no object; and, before them, a create_node
\* that puts a node into the scene.
MisfitDocuments ==
    { DumpsCommand("create_node", "p_ok"),
      DumpsCommand("delete_node", "p_bad"),
      DumpsCommand("delete_node", ""),
      DumpsCommand("get_scene_info", "p_str"),
      DumpsCommand("create_node", "p_bad"),
      <<"1">> }

\* The client begins to send one of the documents D.
RawBeginFrom(D) ==
    /\ rawOut = <<>>
    /\ rawDocs < MaxRawDocs
    /\ \E d \in D : rawOut' = d
    /\ rawDocs' = rawDocs + 1
    /\ UNCHANGED <<sent, sceneVars, beVars, hostVars, netVars, feVars, rawSock, rawConns>>
    /\ ev' = NoEvent

RawBegin ==
    /\ rawSock # 0
    /\ RawBeginFrom(RawDocuments)

RawBeginMisfit ==
    /\ rawSock # 0
    /\ RawBeginFrom(MisfitDocuments)

\* send() of the next k bytes of the document.
RawSend ==
    /\ rawSock # 0
    /\ conns[rawSock].sv # "closed"
    /\ \E k \in 1..Len(rawOut) :
        /\ k <= Space(conns[rawSock].c2s)
        /\ conns' = [conns EXCEPT ![rawSock].c2s = @ \o Take(rawOut, k)]
        /\ rawOut' = Drop(rawOut, k)
    /\ UNCHANGED <<sent, sceneVars, beVars, hostVars, backlog, nextConn, feVars, rawSock, rawDocs,
                   rawConns>>
    /\ ev' = NoEvent

\* recv() of everything the back end has written.
RawRead ==
    /\ rawSock # 0
    /\ conns[rawSock].s2c # <<>>
    /\ conns' = [conns EXCEPT ![rawSock].s2c = <<>>]
    /\ UNCHANGED <<sent, sceneVars, beVars, hostVars, backlog, nextConn, feVars, rawVars>>
    /\ ev' = NoEvent

RawClose ==
    /\ rawSock # 0
    /\ conns' = [conns EXCEPT ![rawSock] = ClientClosed(@)]
    /\ rawSock' = 0
    /\ rawOut' = <<>>
    /\ UNCHANGED <<sent, sceneVars, beVars, hostVars, backlog, nextConn, feVars, rawDocs, rawConns>>
    /\ ev' = NoEvent

\* ----------------------------------------------------------- the front end
\* The commands the front end's tools send: get_scene_info, create_node, and
\* execute_code with a long script.
FeCommands ==
    { <<"get_scene_info", "p_ok">>, <<"create_node", "p_ok">>,
      <<"execute_code", "p_big">> }

FeResult(kind, val, c) == [kind |-> kind, val |-> val, conn |-> c]

\* ---- the tools
\* The tools and the command each sends.
Tools == {"get_scene_info", "create_node", "execute_houdini_code"}

\* create_node is called with the parent "/obj" or with a parent path
\* that no node has ("p_uni").
ToolCommands(tool) ==
    CASE tool = "get_scene_info" -> {<<"get_scene_info", "p_ok">>}
      [] tool = "create_node" -> {<<"create_node", "p_ok">>, <<"create_node", "p_uni">>}
      [] tool = "execute_houdini_code" -> {<<"execute_code", "p_big">>}

\* str(e) of the exception a call ends with.
ExceptionText(kind) ==
    CASE kind = "RuntimeError" ->
             "Could not connect to Houdini on localhost:9876. Is the plugin running?"
      [] kind = "ConnectionError" -> "Could not connect to Houdini on port 9876."
      [] kind = "eof" -> "No (or incomplete) data from Houdini; EOF reached."
      [] kind = "timeout" -> "timed out"
      [] kind = "send_timeout" -> "timed out"
      [] kind = "send_error" -> "[Errno 32] Broken pipe"
      [] kind = "decode_error" -> "'utf-8' codec can't decode"
      [] OTHER -> kind

\* The body of a tool's try block, given how get_houdini_connection and
\* send_command ended (res): an exception of theirs passes through it;
\* response.get on a value that is no object raises AttributeError; an
\* error envelope and a success envelope each give the string returned.
ToolBody(tool, res) ==
    IF res.kind # "value"
      THEN [raised |-> TRUE, text |-> ExceptionText(res.kind)]
    ELSE IF res.val.kind # "obj"
      THEN [raised |-> TRUE, text |-> "'int' object has no attribute 'get'"]
    ELSE IF res.val.k1 = "error"
      THEN [raised |-> FALSE,
            text |-> (IF tool = "get_scene_info" THEN "Houdini error: "
                      ELSE "Error: ") \o res.val.k2]
    ELSE [raised |-> FALSE,
          text |-> CASE tool = "get_scene_info" -> res.val.k2
                     [] tool = "create_node" -> "Node created: " \o res.val.k2
                     [] OTHER -> "Code executed successfully in Houdini."]

\* What the tool's except clause prefixes to str(e).
ToolErrorPrefix(tool) ==
    CASE tool = "get_scene_info" -> "Error retrieving scene info: "
      [] tool = "create_node" -> "Error creating node: "
      [] OTHER -> "Error executing code: "

\* A tool whose body has no try: the exception leaves the invocation.
ToolUnguarded(tool, res, before) ==
    IF tool = "" THEN before
    ELSE IF ToolBody(tool, res).raised
      THEN [kind |-> "raise", text |-> ToolBody(tool, res).text]
    ELSE [kind |-> "str", text |-> ToolBody(tool, res).text]

\* What a tool invocation returns: the body's string, or, for any
\* exception, the error string of the except clause.  A call of
\* send_command that no tool made (tool = "") returns nothing to a tool.
Tool(tool, res, before) ==
    IF tool = "" THEN before
    ELSE IF ToolBody(tool, res).raised
      THEN [kind |-> "str",
            text |-> ToolErrorPrefix(tool) \o ToolBody(tool, res).text]
    ELSE [kind |-> "str", text |-> ToolBody(tool, res).text]

\* A disconnect() that drops the handle and leaves the socket open.
DisconnectedUnclosed(cn) == cn

\* disconnect(): close the socket if there is one; sock = None.
Disconnected(cn) ==
    IF feSock = 0 THEN cn ELSE [cn EXCEPT ![feSock] = ClientClosed(@)]

\* A connect() without the test of self.sock: it opens a socket every time.
ConnectAnew ==
    IF CanConnect /\ nextConn <= MaxConns
      THEN [ok |-> TRUE, sock |-> nextConn, conns |-> Connected(conns, nextConn),
            backlog |-> Append(backlog, nextConn), nextConn |-> nextConn + 1,
            timeout |-> FALSE]
    ELSE [ok |-> feSock # 0, sock |-> feSock, conns |-> conns, backlog |-> backlog,
          nextConn |-> nextConn, timeout |-> feTimeout]

\* A connect() that makes its one attempt only for a new connection object.
ConnectOnce ==
    IF feSock # 0
      THEN [ok |-> TRUE, sock |-> feSock, conns |-> conns, backlog |-> backlog,
            nextConn |-> nextConn, timeout |-> feTimeout]
    ELSE IF CanConnect /\ ~feGlobal
      THEN [ok |-> TRUE, sock |-> nextConn, conns |-> Connected(conns, nextConn),
            backlog |-> Append(backlog, nextConn), nextConn |-> nextConn + 1,
            timeout |-> FALSE]
    ELSE [ok |-> FALSE, sock |-> 0, conns |-> conns, backlog |-> backlog,
          nextConn |-> nextConn, timeout |-> FALSE]

\* connect(): True at once when sock is set; else one attempt, which leaves
\* sock None and returns False when it fails.
Connect ==
    IF feSock # 0
      THEN [ok |-> TRUE, sock |-> feSock, conns |-> conns, backlog |-> backlog,
            nextConn |-> nextConn, timeout |-> feTimeout]
    ELSE IF CanConnect
      THEN [ok |-> TRUE, sock |-> nextConn, conns |-> Connected(conns, nextConn),
            backlog |-> Append(backlog, nextConn), nextConn |-> nextConn + 1,
            timeout |-> FALSE]
    ELSE [ok |-> FALSE, sock |-> 0, conns |-> conns, backlog |-> backlog,
          nextConn |-> nextConn, timeout |-> FALSE]

\* A call of connect() by itself, as get_houdini_connection makes.
FeConnect ==
    /\ fePc = "idle"
    /\ feSock = 0 => (nextConn <= MaxConns \/ ~CanConnect)
    /\ \E r \in {Connect} :
           /\ feSock' = r.sock
           /\ feTimeout' = r.timeout
           /\ conns' = r.conns
           /\ backlog' = r.backlog
           /\ nextConn' = r.nextConn
           /\ feRes' = FeResult(IF r.ok THEN "connected" ELSE "refused", NoValue, r.sock)
    /\ UNCHANGED <<sent, sceneVars, beVars, hostVars, fePc, feOut, feChunks, feCalls, toolVars,
                   rawVars>>
    /\ ev' = FeEvent("connect")

\* send_command up to sendall: connect on demand, ConnectionError when that
\* fails, else serialise the command.
FeCall ==
    /\ fePc = "idle"
    /\ feCalls < MaxCalls
    /\ feSock = 0 => (nextConn <= MaxConns \/ ~CanConnect)
    /\ \E cmd \in FeCommands, r \in {Connect} :
            /\ feSock' = r.sock
            /\ feTimeout' = r.timeout
            /\ conns' = r.conns
            /\ backlog' = r.backlog
            /\ nextConn' = r.nextConn
            /\ fePc' = IF r.ok THEN "sendall" ELSE "idle"
            /\ feOut' = IF r.ok THEN DumpsCommand(cmd[1], cmd[2]) ELSE <<>>
            /\ feRes' = IF r.ok THEN FeResult("calling", NoValue, r.sock)
                        ELSE FeResult("ConnectionError", NoValue, 0)
            /\ sent' = Append(sent, Writing(r.sock, cmd))
    /\ feCalls' = feCalls + 1
    /\ feChunks' = <<>>
    /\ UNCHANGED <<sceneVars, beVars, hostVars, toolVars, rawVars>>
    /\ ev' = FeEvent("send_command")

\* server_lifespan at startup: get_houdini_connection() creates the global
\* connection object and tries to connect; its RuntimeError is logged.
Startup ==
    /\ ~feGlobal
    /\ fePc = "idle"
    /\ feSock = 0 => (nextConn <= MaxConns \/ ~CanConnect)
    /\ \E r \in {Connect} :
           /\ feSock' = r.sock
           /\ feTimeout' = r.timeout
           /\ conns' = r.conns
           /\ backlog' = r.backlog
           /\ nextConn' = r.nextConn
           /\ feRes' = FeResult(IF r.ok THEN "connected" ELSE "RuntimeError",
                                NoValue, r.sock)
    /\ feGlobal' = TRUE
    /\ UNCHANGED <<sent, sceneVars, beVars, hostVars, fePc, feOut, feChunks, feCalls, feTool,
                   toolRet, rawVars>>
    /\ ev' = FeEvent("startup")

\* A tool invocation up to sendall: get_houdini_connection() returns the
\* global object, or creates it and raises RuntimeError when its connect()
\* fails; then send_command, as in FeCall.
ToolCall ==
    /\ fePc = "idle"
    /\ feCalls < MaxCalls
    /\ feSock = 0 => (nextConn <= MaxConns \/ ~CanConnect)
    /\ \E tool \in Tools, r \in {Connect} :
       \E cmd \in ToolCommands(tool) :
       \E res \in {IF r.ok THEN FeResult("calling", NoValue, r.sock)
                    ELSE FeResult(IF feGlobal THEN "ConnectionError"
                                  ELSE "RuntimeError", NoValue, 0)} :
            /\ feSock' = r.sock
            /\ feTimeout' = r.timeout
            /\ conns' = r.conns
            /\ backlog' = r.backlog
            /\ nextConn' = r.nextConn
            /\ fePc' = IF r.ok THEN "sendall" ELSE "idle"
            /\ feOut' = IF r.ok THEN DumpsCommand(cmd[1], cmd[2]) ELSE <<>>
            /\ feRes' = res
            /\ feTool' = tool
            /\ toolRet' = IF r.ok THEN NoReturn ELSE Tool(tool, res, toolRet)
            /\ sent' = Append(sent, Writing(r.sock, cmd))
    /\ feGlobal' = TRUE
    /\ feCalls' = feCalls + 1
    /\ feChunks' = <<>>
    /\ UNCHANGED <<sceneVars, beVars, hostVars, rawVars>>
    /\ ev' = FeEvent("tool")

\* An except clause that raises and leaves the socket as it is.
FeFailKeepsSocket(kind) ==
    /\ fePc' = "idle"
    /\ feOut' = <<>>
    /\ feChunks' = <<>>
    /\ feRes' = FeResult(kind, NoValue, feSock)
    /\ toolRet' = Tool(feTool, FeResult(kind, NoValue, feSock), toolRet)
    /\ UNCHANGED <<sent, sceneVars, beVars, hostVars, conns, feSock, feTimeout, backlog,
                   nextConn, feCalls, feGlobal, feTool, rawVars>>
    /\ ev' = FeEvent("fail")

\* The except clause of send_command: disconnect() and raise.
FeFail(kind) ==
    /\ conns' = Disconnected(conns)
    /\ feSock' = 0
    /\ feTimeout' = FALSE
    /\ fePc' = "idle"
    /\ feOut' = <<>>
    /\ feChunks' = <<>>
    /\ feRes' = FeResult(kind, NoValue, feSock)
    /\ toolRet' = Tool(feTool, FeResult(kind, NoValue, feSock), toolRet)
    /\ UNCHANGED <<sent, sceneVars, beVars, hostVars, backlog, nextConn, feCalls, feGlobal, feTool,
                   rawVars>>
    /\ ev' = FeEvent("fail")

\* sock.sendall(data_out) on the blocking socket: it writes as the socket's
\* send buffer takes bytes; once all are written, settimeout(10.0) and the
\* read loop.
FeSend ==
    /\ fePc = "sendall"
    /\ conns[feSock].sv # "closed"
    /\ Space(conns[feSock].c2s) > 0
    /\ \E k \in {IF Len(feOut) <= Space(conns[feSock].c2s) THEN Len(feOut)
                 ELSE Space(conns[feSock].c2s)} :
           /\ conns' = [conns EXCEPT ![feSock].c2s = @ \o Take(feOut, k)]
           /\ feOut' = Drop(feOut, k)
           /\ fePc' = IF k = Len(feOut) THEN "recv" ELSE "sendall"
           /\ feTimeout' = IF k = Len(feOut) THEN TRUE ELSE feTimeout
    /\ UNCHANGED <<sent, sceneVars, beVars, hostVars, backlog, nextConn, feSock, feChunks, feCalls,
                   feRes, toolVars, rawVars>>
    /\ ev' = FeEvent("sendall")

\* sendall on a connection the back end has closed raises.
FeSendError ==
    /\ fePc = "sendall"
    /\ conns[feSock].sv = "closed"
    /\ FeFail("send_error")

\* sendall with no room in the send buffer raises socket.timeout when an
\* earlier call has set the socket's timeout; on a fresh socket it has none.
FeSendTimeout ==
    /\ fePc = "sendall"
    /\ conns[feSock].sv # "closed"
    /\ Space(conns[feSock].c2s) = 0
    /\ feTimeout
    /\ FeFail("send_timeout")

\* One recv of the read loop that returns bytes: a parse of all the chunks
\* so far returns the value; JSONDecodeError reads on; a decode error is
\* any other exception.
FeRecv ==
    /\ fePc = "recv"
    /\ conns[feSock].s2c # <<>>
    /\ \E chunk \in {Take(conns[feSock].s2c, RecvMax)} :
       \E pr \in {ParseBytes(feChunks \o chunk)} :
           IF pr.err = "unicode"
             THEN FeFail("decode_error")
           ELSE /\ conns' = [conns EXCEPT ![feSock].s2c = Drop(@, RecvMax)]
                /\ feChunks' = IF pr.err = "none" THEN <<>> ELSE feChunks \o chunk
                /\ fePc' = IF pr.err = "none" THEN "idle" ELSE "recv"
                /\ feRes' = IF pr.err = "none" THEN FeResult("value", pr.val, feSock)
                            ELSE feRes
                /\ toolRet' = IF pr.err = "none"
                                THEN Tool(feTool, FeResult("value", pr.val, feSock),
                                          toolRet)
                              ELSE toolRet
                /\ UNCHANGED <<sent, sceneVars, beVars, hostVars, backlog, nextConn, feSock,
                               feTimeout, feOut, feCalls, feGlobal, feTool, rawVars>>
                /\ ev' = FeEvent("recv")

\* recv returns b"": the loop breaks and the end-of-stream exception is raised.
FeRecvEof ==
    /\ fePc = "recv"
    /\ conns[feSock].s2c = <<>>
    /\ conns[feSock].sv = "closed"
    /\ FeFail("eof")

\* recv gets nothing within the 10 seconds: socket.timeout.
FeRecvTimeout ==
    /\ fePc = "recv"
    /\ conns[feSock].s2c = <<>>
    /\ conns[feSock].sv # "closed"
    /\ FeFail("timeout")

\* ------------------------------------------- handlers called on the scene
\* The scenes the calls start from.  /obj holds no node, two, or more than
\* get_scene_info lists: n1 a geo, n2 a subnet holding nothing, a geometry
\* node, or a geometry node whose material1 has no shop_materialpath1.
\* /shop and /mat are there or not, /out holds nine nodes, /ch none, /stage
\* one, and there is no /vex.
Numbered(prefix, count, type) ==
    [i \in 1..count |->
        NewNode(prefix \o <<"1", "2", "3", "4", "5", "6", "7", "8", "9", "10", "11">>[i],
                type)]

ObjChildren(count, inner) ==
    [i \in 1..count |->
        IF i = 2 THEN [NewNode("n2", "subnet") EXCEPT !.inner = inner]
        ELSE Numbered("n", count, "geo")[i]]

Scenes ==
    { [c \in Contexts |->
         CASE c = "obj" -> [exists |-> TRUE, children |-> ObjChildren(count, inner)]
           [] c = "shop" -> IF shop THEN [exists |-> TRUE,
                                         children |-> Numbered("s", 3, "principledshader")]
                            ELSE NoContext
           [] c = "out" -> [exists |-> TRUE, children |-> Numbered("o", 9, "geo")]
           [] c = "ch" -> EmptyContext
           [] c = "vex" -> NoContext
           [] c = "stage" -> [exists |-> TRUE, children |-> Numbered("t", 1, "geo")]
           [] c = "mat" -> IF mat THEN EmptyContext ELSE NoContext] :
      count \in {0, 2, 11}, inner \in {"none", "geometry", "other"},
      shop \in BOOLEAN, mat \in BOOLEAN }

InitScenes ==
    /\ InitRelay
    /\ hou \in Scenes
    /\ call = NoCall

relayVars == <<beVars, hostVars, netVars, feVars, rawVars, ev, sent>>

At(ctx, name) == [ctx |-> ctx, name |-> name]

\* The envelope execute_command returns for what the handler did.
Envelope(r) ==
    IF r.raised THEN [status |-> "error", message |-> r.val.message]
    ELSE [status |-> "success", result |-> r.val]

\* handler(**params) by the dispatcher: the scene is as the handler leaves
\* it, and the result or exception is the call's.
Called(op, args, r) ==
    /\ hou' = r.hou
    /\ call' = [n |-> call.n + 1, op |-> op, prev |-> call.op, args |-> args,
                raised |-> r.raised, val |-> r.val, resp |-> Envelope(r)]
    /\ UNCHANGED relayVars

CallGetSceneInfo ==
    /\ call.n < MaxHandlerCalls
    /\ Called("get_scene_info", [none |-> TRUE], GetSceneInfo(hou))

CallDeleteNode ==
    /\ call.n < MaxHandlerCalls
    /\ \E path \in {At("obj", "n1"), At("obj", "missing"), At("shop", "s1")} :
        Called("delete_node", [path |-> path], DeleteNode(hou, path))

\* The arguments modify_node is called with: none; all three, the first
\* parameter named one the node has not; its own name, a position of one
\* entry and two parameters; a sibling's name; a position of three entries
\* and the two parameters the other way round.
ModifyArguments ==
    { [name |-> "", position |-> <<>>, parameters |-> <<>>],
      [name |-> "renamed", position |-> <<1, 2>>,
       parameters |-> << <<"ty", "2">>, <<"tx", "1">> >>],
      [name |-> "n1", position |-> <<5>>,
       parameters |-> << <<"tx", "1">>, <<"shop_materialpath", "/mat/m">> >>],
      [name |-> "n2", position |-> <<>>, parameters |-> <<>>],
      [name |-> "", position |-> <<1, 2, 3>>,
       parameters |-> << <<"shop_materialpath", "/mat/m">>, <<"tx", "1">> >>] }

CallModifyNode ==
    /\ call.n < MaxHandlerCalls
    /\ \E path \in {At("obj", "n1"), At("obj", "missing")}, a \in ModifyArguments :
        Called("modify_node", [path |-> path] @@ a,
               ModifyNode(hou, path, a.parameters, a.position, a.name))

CreateArguments ==
    { [node_type |-> "geo", parent |-> "obj", name |-> ""],
      [node_type |-> "geo", parent |-> "obj", name |-> "n1"],
      [node_type |-> "bogus", parent |-> "obj", name |-> "x"],
      [node_type |-> "geo", parent |-> "nowhere", name |-> "x"],
      [node_type |-> "subnet", parent |-> "vex", name |-> ""] }

CallCreateNode ==
    /\ call.n < MaxHandlerCalls
    /\ \E a \in CreateArguments :
        /\ a.parent \in Contexts =>
              NodeName(hou[a.parent].children, a.node_type, a.name)
                  \notin NamesOf(hou[a.parent].children)
        /\ Called("create_node", a,
                  CreateNode(hou, a.node_type, a.parent, a.name, <<3, 4>>, <<>>))

MaterialArguments ==
    { [material_type |-> "principledshader", name |-> "", parameters |-> <<>>],
      [material_type |-> "bogus", name |-> "s1",
       parameters |-> << <<"tx", "1">> >>],
      [material_type |-> "bogus", name |-> "", parameters |-> <<>>] }

CallSetMaterial ==
    /\ call.n < MaxHandlerCalls
    /\ \E path \in {At("obj", "n1"), At("obj", "n2"), At("obj", "missing"),
                    At("shop", "s1")}, a \in MaterialArguments :
        Called("set_material", [node_path |-> path] @@ a,
               SetMaterial(hou, path, a.material_type, a.name, a.parameters))

\* ------------------------------------------------------ the specifications
BackEndStep == Start \/ Stop \/ Poll \/ ToggleAssetLib

RawStep == RawConnect \/ RawBegin \/ RawSend \/ RawRead \/ RawClose

FeStep ==
    \/ FeConnect
    \/ FeCall
    \/ FeSend
    \/ FeSendError
    \/ FeSendTimeout
    \/ FeRecv
    \/ FeRecvEof
    \/ FeRecvTimeout

\* The back end and a client that sends it bytes of its choosing.
Next == BackEndStep \/ RawStep

Spec == Init /\ [][Next]_vars

\* The relay: the front end and the back end.
NextRelay == BackEndStep \/ FeStep

SpecRelay == Init /\ [][NextRelay]_vars

\* The back end and a client whose documents parse and fit no handler.
NextFrames ==
    BackEndStep \/ RawConnect \/ RawBeginMisfit \/ RawSend \/ RawRead \/ RawClose

SpecFrames == Init /\ [][NextFrames]_vars

\* The handlers, called one after another on a scene.
NextHandlers ==
    \/ CallGetSceneInfo
    \/ CallDeleteNode
    \/ CallModifyNode
    \/ CallCreateNode
    \/ CallSetMaterial

SpecHandlers == InitScenes /\ [][NextHandlers]_vars

\* The relay as the tools drive it.
ToolStep ==
    \/ Startup
    \/ ToolCall
    \/ FeSend
    \/ FeSendError
    \/ FeSendTimeout
    \/ FeRecv
    \/ FeRecvEof
    \/ FeRecvTimeout

NextTools == BackEndStep \/ ToolStep

SpecTools == Init /\ [][NextTools]_vars

\* The relay beside another client that connects and may close.  The timer
\* keeps polling while the server runs and the front end's call goes on
\* whenever it can; nothing obliges the other client or the user to act.
NextShared == BackEndStep \/ FeStep \/ RawConnect \/ RawClose

\* The same steps with nothing said of who goes on.
SpecShared == Init /\ [][NextShared]_vars

FairShared ==
    Init /\ [][NextShared]_vars /\ WF_vars(Poll) /\ WF_vars(FeStep)

\* ------------------------------------------------------------------ claims
\* A poll tick that parsed a document and executed it.
Dispatched == ev.op = "poll" /\ ev.outcome = "dispatch"

\* That document was a JSON object whose type the table, as the flag stands,
\* does not hold.
DispatchedUnknown ==
    Dispatched /\ ev.cmd.kind = "obj" /\ ev.cmd.k1 \notin Handlers(assetlib)

\* C1, as the specification states it: the response to a command of a type
\* the dispatch table does not hold is the success envelope
\* {status: "success", result: "Unknown command type: <type>"}.
C1_UnknownTypeIsSuccess ==
    DispatchedUnknown =>
        ev.resp = [status |-> "success",
                   result |-> "Unknown command type: " \o TypeName(ev.cmd.k1)]

\* C1, amended: the response to a command of a type the dispatch table does
\* not hold is {status: "error", message: "Unknown command type: <type>"},
\* the same error envelope a handler's exception gets.
C1_UnknownTypeIsError ==
    /\ DispatchedUnknown =>
          ev.resp = [status |-> "error",
                     message |-> "Unknown command type: " \o TypeName(ev.cmd.k1)]
    /\ Dispatched /\ ev.raised => ev.resp.status = "error"

C1_Witness ==
    /\ DispatchedUnknown
    /\ ev.cmd.k1 = "bogus"
    /\ ev.send = "ok"
    /\ ev.wrote = <<"{", "error", "Unknown command type: bogus", "}">>

\* C6: an asset-library command is answered as the flag stands at that
\* dispatch: unset, with the response of an unknown command type; set, with
\* the success envelope around the handler's placeholder.
C6_AssetFlagReadAtDispatch ==
    Dispatched /\ ev.cmd.kind = "obj" /\ ev.cmd.k1 \in AssetHandlers
               /\ ev.cmd.k2 \in {"", "p_ok"} =>
        IF assetlib
          THEN ev.resp = [status |-> "success",
                          result |-> "{error: " \o ev.cmd.k1 \o " not implemented}"]
        ELSE ev.resp = [status |-> "error",
                        message |-> "Unknown command type: " \o ev.cmd.k1]

\* A search_assets gets the placeholder on the connection that still holds,
\* unread, the unknown-type response to an earlier search_assets: the flag
\* was set between the two, and the server neither restarted nor reconnected.
C6_Witness ==
    /\ Dispatched
    /\ ev.cmd.k1 = "search_assets"
    /\ assetlib
    /\ ev.resp = Success("{error: search_assets not implemented}")
    /\ Take(conns[ev.conn].s2c, 4) =
          <<"{", "error", "Unknown command type: search_assets", "}">>

IsPrefix(a, b) == Len(a) <= Len(b) /\ SubSeq(b, 1, Len(a)) = a

\* The client of the dispatched command still has its end open.
PeerOpen == conns[ev.conn].cl = "open"

\* C2: a command of a type in the table whose handler returns gets, written
\* on the connection it came from, exactly {status: "success", result: R}.
C2_SuccessResponseWritten ==
    Dispatched /\ ev.cmd.kind = "obj" /\ ev.cmd.k1 \in Handlers(assetlib)
               /\ ~ev.raised /\ PeerOpen =>
        /\ ev.resp.status = "success"
        /\ ev.wrote = <<"{", "success", ev.resp.result, "}">>
        /\ client = ev.conn

\* C3: a handler that raises gets {status: "error", message} written on the
\* same connection, and the server goes on running with that client.
C3_ErrorResponseWritten ==
    Dispatched /\ ev.raised /\ PeerOpen =>
        /\ ev.resp.status = "error"
        /\ ev.wrote = <<"{", "error", ev.resp.message, "}">>
        /\ running
        /\ client = ev.conn

\* The complete commands the other client sends.
CommandDocuments == RawDocuments \ {<<"x">>}

\* C4: however the bytes of a complete command are split over poll ticks,
\* a proper prefix of it is kept in the buffer without a dispatch, and the
\* whole of it is dispatched as the command it is when sent in one piece.
C4_ChunkedCommandDispatchedOnce ==
    ev.op = "poll" /\ ev.data # <<>> =>
        \A d \in CommandDocuments :
            /\ IsPrefix(ev.buf, d) /\ ev.buf # d =>
                  ev.outcome = "buffered" /\ client = ev.conn /\ buffer = ev.buf
            /\ ev.buf = d =>
                  Dispatched /\ ev.cmd = ParseBytes(d).val /\ buffer = <<>>

\* C5: bytes that can never become a JSON document are neither dispatched
\* nor answered; the client stays connected and the bytes stay buffered.
C5_UnparseableBytesKept ==
    ev.op = "poll" /\ ev.data # <<>> /\ "x" \in Range(ev.buf) =>
        /\ ev.outcome = "buffered"
        /\ ev.wrote = <<>>
        /\ client = ev.conn
        /\ buffer = ev.buf

RECURSIVE WholeDocuments(_)
WholeDocuments(q) ==
    \/ q = <<>>
    \/ Len(q) >= 4 /\ q[1] = "{" /\ q[4] = "}" /\ WholeDocuments(Drop(q, 4))

\* C8: a parsed command is answered in the same tick with the complete
\* response, the buffer cleared: no client is ever left with a response
\* written in part only.
C8_ResponseWrittenWhole ==
    /\ Dispatched /\ PeerOpen => ev.send = "ok" /\ buffer = <<>>
    /\ \A c \in Conn : conns[c].cl = "open" => WholeDocuments(conns[c].s2c)

\* The ways send_command fails once connected.
FailKinds == {"send_error", "send_timeout", "eof", "timeout", "decode_error"}

\* C7: when send_command fails in its send or its receive, the call ends
\* with the socket closed and the handle None, the failing call writes nothing
\* more, and the next send_command writes only to a connection it has just
\* opened.
C7_FailureClosesSocket ==
    /\ [](feRes.kind \in FailKinds =>
            /\ fePc = "idle"
            /\ feSock = 0
            /\ conns[feRes.conn].cl = "closed"
            /\ \A c \in Conn : conns[c].cl # "open")
    /\ [][ev'.op = "fail" =>
            /\ feRes'.kind \in FailKinds
            /\ feRes'.conn = feSock
            /\ \A c \in Conn : conns'[c].c2s \in {conns[c].c2s, <<>>}]_vars
    /\ [][feRes.kind \in FailKinds /\ ev'.op = "send_command" /\ fePc' = "sendall" =>
            /\ feSock' = nextConn
            /\ feSock' # feRes.conn
            /\ conns[feSock'].cl = "none"
            /\ conns'[feSock'].cl = "open"
            /\ conns'[feSock'].c2s = <<>>]_vars

\* The call after a failed one has opened the second connection and is
\* about to write its command.
C7_Witness ==
    /\ ev.op = "send_command"
    /\ fePc = "sendall"
    /\ feCalls = 2
    /\ feSock = 2
    /\ conns[1].cl = "closed"
    /\ conns[2].cl = "open"
    /\ conns[2].c2s = <<>>

\* C9: connect() with a socket held returns True and changes nothing, also
\* when send_command calls it; with none held it makes one attempt, and a
\* failed attempt returns False and leaves the handle None.
C9_ConnectIdempotent ==
    [][ev'.op \in {"connect", "send_command"} =>
        IF feSock # 0
          THEN /\ feSock' = feSock
               /\ conns' = conns
               /\ backlog' = backlog
               /\ nextConn' = nextConn
               /\ feTimeout' = feTimeout
               /\ ev'.op = "connect" => feRes'.kind = "connected"
          ELSE /\ nextConn' \in {nextConn, nextConn + 1}
               /\ feSock' \in {0, nextConn}
               /\ feSock' = 0 =>
                     /\ conns' = conns
                     /\ backlog' = backlog
                     /\ nextConn' = nextConn
                     /\ feRes'.kind \in {"refused", "ConnectionError"}
               /\ feSock' # 0 =>
                     /\ nextConn' = nextConn + 1
                     /\ conns'[feSock'].cl = "open"
                     /\ feRes'.kind \in {"connected", "calling"}]_vars

\* connect() called with the socket of an earlier send_command still held.
C9_Witness ==
    /\ ev.op = "connect"
    /\ ev.conn # 0
    /\ feSock = ev.conn
    /\ feTimeout
    /\ feRes.kind = "connected"

\* C10: every call of send_command ends.
C10_SendCommandTerminates == (fePc # "idle") ~> (fePc = "idle")

\* The ways a tool invocation fails before it has a response.
ToolFailKinds == FailKinds \cup {"ConnectionError", "RuntimeError"}

\* A tool invocation has returned.
ToolReturned == feTool # "" /\ fePc = "idle"

\* C11: no tool invocation ends with an exception.  Each ends by returning
\* a string: for an unreachable back end, a failed send or receive and a
\* response that is no object, the error string of the tool's except clause
\* around the exception's text; for an error envelope, the error string with
\* its message.  Having returned, the front end is idle for the next
\* invocation.
C11_ToolsReturnStrings ==
    /\ toolRet.kind \in {"none", "str"}
    /\ toolRet.kind = "str" => fePc = "idle"
    /\ ToolReturned =>
          /\ toolRet.kind = "str"
          /\ feRes.kind \in ToolFailKinds =>
                toolRet.text = ToolErrorPrefix(feTool) \o ExceptionText(feRes.kind)
          /\ feRes.kind = "value" /\ feRes.val.kind = "obj" /\ feRes.val.k1 = "error" =>
                toolRet.text \in {"Houdini error: " \o feRes.val.k2,
                                  "Error: " \o feRes.val.k2}
          /\ feRes.kind \in ToolFailKinds \cup {"value"}

\* The second invocation, made on a new connection after the first one
\* failed, returns the string for the back end's error envelope.
C11_Witness ==
    /\ ToolReturned
    /\ feCalls = 2
    /\ feSock = 2
    /\ conns[1].cl = "closed"
    /\ feTool = "create_node"
    /\ toolRet =
          [kind |-> "str",
           text |-> "Error: Failed to create node: Parent path not found: /\\u00e9"]

\* Handlers with a parameter that has no default.
NeedsParams ==
    {"create_node", "modify_node", "delete_node", "get_node_info",
     "execute_code", "set_material"}

\* A parsed document that is no object, or a command to a handler of the
\* table whose params are no mapping, hold a key the handler has not, or
\* lack the key it requires.
MisfitCommand(cmd) ==
    \/ cmd.kind = "scalar"
    \/ /\ cmd.kind = "obj"
       /\ cmd.k1 \in AlwaysHandlers
       /\ \/ cmd.k2 \in {"p_bad", "p_str"}
          \/ cmd.k2 = "" /\ cmd.k1 \in NeedsParams

\* C12: a document that parses and is no object, or whose params do not fit
\* the handler, is consumed as one frame: the buffer is cleared, the response
\* is the error envelope, the scene is as it was, and the client, unless it
\* has closed, is kept.
C12_MisfitIsHandlerError ==
    [][ev'.op = "poll" /\ ev'.outcome = "dispatch" /\ MisfitCommand(ev'.cmd) =>
          /\ buffer' = <<>>
          /\ ev'.raised
          /\ ev'.resp.status = "error"
          /\ DOMAIN ev'.resp = {"status", "message"}
          /\ scene' = scene
          /\ running'
          /\ conns'[ev'.conn].cl = "open" => client' = ev'.conn]_vars

\* delete_node with a key it does not take, sent in two pieces while the
\* scene holds the node: answered in full with the error envelope.
C12_Witness ==
    /\ Dispatched
    /\ ev.cmd = [kind |-> "obj", k1 |-> "delete_node", k2 |-> "p_bad"]
    /\ ev.data # ev.buf
    /\ scene = {Foo}
    /\ client = ev.conn
    /\ ev.send = "ok"
    /\ ev.wrote = <<"{", "error", "TypeError: delete_node()", "}">>

\* The children of context c without the node the path names.
Others(h, c, path) ==
    SelectSeq(h[c].children, LAMBDA n : ~(c = path.ctx /\ n.name = path.name))

\* C13: delete_node with a path that names no node is answered
\* {status: "error", message: "Node not found: <path>"} and leaves the scene
\* as it was; with a path that names a node, that node and no other is gone
\* and the success result holds the path and the name it had.
C13_DeleteNode ==
    [][call'.op = "delete_node" =>
          IF Place(hou, call'.args.path) = 0
            THEN /\ call'.resp =
                       [status |-> "error",
                        message |-> "Node not found: /" \o call'.args.path.ctx \o "/"
                                       \o call'.args.path.name]
                 /\ hou' = hou
          ELSE /\ call'.resp =
                     [status |-> "success",
                      result |-> [deleted |-> "/" \o call'.args.path.ctx \o "/"
                                                 \o call'.args.path.name,
                                  name |-> call'.args.path.name]]
               /\ Place(hou', call'.args.path) = 0
               /\ \A c \in Contexts :
                     /\ hou'[c].exists = hou[c].exists
                     /\ hou'[c].children = Others(hou, c, call'.args.path)]_vars

\* The second delete_node of /obj/n1, after the first destroyed it among
\* the eleven nodes of /obj, is answered with the error.
C13_Witness ==
    /\ call.n = 2
    /\ call.op = "delete_node"
    /\ call.resp = [status |-> "error", message |-> "Node not found: /obj/n1"]
    /\ Len(hou["obj"].children) = 10
    /\ hou["obj"].children[1].name = "n2"

\* The string of a path argument.
PathText(path) == "/" \o path.ctx \o "/" \o path.name

\* The node a path argument names in the scene h.
NodeAt(h, path) == h[path.ctx].children[Place(h, path)]

\* set_material cannot go through: no target, a target outside /obj,
\* neither /mat nor /shop, or a target with no shop_materialpath and no
\* geometry node whose material1 could take the material.
MaterialMustFail(h, path) ==
    \/ Place(h, path) = 0
    \/ path.ctx # "obj"
    \/ ~h["mat"].exists /\ ~h["shop"].exists
    \/ /\ "shop_materialpath" \notin DOMAIN NodeAt(h, path).parms
       /\ NodeAt(h, path).inner \in {"none", "other"}

\* C14: set_material raises nothing to the dispatcher.  Whatever fails, its
\* result is {status: "error", message, node} with the node_path it was
\* given, and the response is the success envelope around that result.
C14_SetMaterialNeverRaises ==
    [][call'.op = "set_material" =>
          /\ ~call'.raised
          /\ call'.resp = [status |-> "success", result |-> call'.val]
          /\ call'.val.status \in {"ok", "error"}
          /\ MaterialMustFail(hou, call'.args.node_path) => call'.val.status = "error"
          /\ call'.val.status = "error" =>
                /\ DOMAIN call'.val = {"status", "message", "node"}
                /\ call'.val.node = PathText(call'.args.node_path)]_vars

\* A subnet of /obj that holds no geometry node: the material node is made
\* in /mat, and the failure to assign it comes back as the error result.
C14_Witness ==
    /\ call.op = "set_material"
    /\ call.resp =
          [status |-> "success",
           result |-> [status |-> "error",
                       message |-> "No 'geometry' node found inside OBJ to apply material to.",
                       node |-> "/obj/n2"]]
    /\ Len(hou["mat"].children) = 1

\* The parameters given that the node has, in the order given.
Applied(node, parameters) ==
    SelectSeq(parameters, LAMBDA kv : kv[1] \in DOMAIN node.parms)

\* The change log of a modify_node on the node with the arguments a.
ExpectedChanges(node, a) ==
    (IF a.name # "" /\ a.name # node.name
       THEN <<[change |-> "rename", old |-> node.name, new |-> a.name]>>
     ELSE <<>>)
    \o (IF Len(a.position) >= 2
          THEN <<[change |-> "position", position |-> a.position]>>
        ELSE <<>>)
    \o [j \in 1..Len(Applied(node, a.parameters)) |->
           [change |-> "parameter", name |-> Applied(node, a.parameters)[j][1],
            old |-> node.parms[Applied(node, a.parameters)[j][1]],
            new |-> Applied(node, a.parameters)[j][2]]]

\* C15: modify_node on a path that names no node fails and leaves the scene
\* as it was.  On one that names a node its result's change log holds the
\* rename, then the position, then the parameters in the order given, each
\* only when it was asked for and made.
C15_ModifyNodeChangeLog ==
    [][call'.op = "modify_node" =>
          IF Place(hou, call'.args.path) = 0
            THEN /\ call'.resp = [status |-> "error",
                                  message |-> "Node not found: "
                                                 \o PathText(call'.args.path)]
                 /\ hou' = hou
          ELSE ~call'.raised =>
                 /\ call'.val.changes =
                       ExpectedChanges(NodeAt(hou, call'.args.path), call'.args)
                 /\ call'.resp = [status |-> "success", result |-> call'.val]]_vars

\* All three changes asked of /obj/n1, with a parameter it has not before
\* one it has: the log holds the rename, the position and the one parameter.
C15_Witness ==
    /\ call.op = "modify_node"
    /\ call.val =
          [path |-> "/obj/renamed",
           changes |-> <<[change |-> "rename", old |-> "n1", new |-> "renamed"],
                         [change |-> "position", position |-> <<1, 2>>],
                         [change |-> "parameter", name |-> "tx", old |-> "0",
                          new |-> "1"]>>]
    /\ hou["obj"].children[1].pos = <<1, 2>>

\* The entries of one context: none when it does not exist.
Entries(h, c) ==
    IF ~h[c].exists THEN <<>>
    ELSE [i \in 1..Len(h[c].children) |->
             [name |-> h[c].children[i].name,
              path |-> "/" \o c \o "/" \o h[c].children[i].name,
              type |-> h[c].children[i].type, category |-> c]]

AllEntries(h) ==
    Entries(h, "obj") \o Entries(h, "shop") \o Entries(h, "out") \o Entries(h, "ch")
        \o Entries(h, "vex") \o Entries(h, "stage")

\* C16: the nodes of get_scene_info are the first ten, or all when there
\* are fewer, of the children of obj, shop, out, ch, vex and stage put one
\* after another in that order, a context that does not exist giving none.
C16_SceneInfoFirstTen ==
    [][call'.op = "get_scene_info" =>
          /\ ~call'.raised
          /\ Len(call'.val.nodes) <= 10
          /\ call'.val.nodes =
                SubSeq(AllEntries(hou), 1,
                       IF Len(AllEntries(hou)) < 10 THEN Len(AllEntries(hou)) ELSE 10)]_vars

\* Two nodes of /obj, three of /shop and the first five of the nine of /out.
C16_Witness ==
    /\ call.op = "get_scene_info"
    /\ Len(call.val.nodes) = 10
    /\ call.val.nodes[2].path = "/obj/n2"
    /\ call.val.nodes[3].path = "/shop/s1"
    /\ call.val.nodes[10].path = "/out/o5"

\* C17: get_scene_info leaves the scene as it was, and called again with
\* no other call in between it returns what it returned.
C17_SceneInfoRepeatable ==
    [][call'.op = "get_scene_info" =>
          /\ hou' = hou
          /\ call.op = "get_scene_info" => call'.val = call.val /\ call'.resp = call.resp]_vars

\* get_scene_info called twice on a scene of more than ten nodes.
C17_Witness ==
    /\ call.op = "get_scene_info"
    /\ call.prev = "get_scene_info"
    /\ call.n = 2
    /\ Len(call.val.nodes) = 10
    /\ call.val.node_count > 10

\* The connections the back end has accepted and not closed.
Accepted == {c \in Conn : conns[c].sv = "accepted"}

\* C18: the back end holds one accepted client at most.  A tick accepts
\* only when it holds none, and then the oldest waiting connection; while it
\* holds one, a tick reads that client alone, and a connection that waits
\* keeps every byte sent on it.
C18_OneClientAtATime ==
    /\ [](/\ Cardinality(Accepted) <= 1
          /\ Accepted \subseteq {client}
          /\ client # 0 => client \notin Range(backlog))
    /\ [][ev'.op = "poll" =>
            /\ ev'.accepted # 0 => client = 0 /\ ev'.accepted = Head(backlog)
            /\ client # 0 => ev'.accepted = 0 /\ ev'.conn = client
            /\ \A c \in Conn :
                  conns[c].sv = "pending" /\ c # ev'.accepted =>
                      conns'[c].sv = "pending" /\ conns'[c].c2s = conns[c].c2s]_vars

\* A tick with a client held while a second connection waits with the bytes
\* of a command on it.
C18_Witness ==
    /\ ev.op = "poll"
    /\ client = 1
    /\ ev.conn = 1
    /\ ev.accepted = 0
    /\ backlog = <<2>>
    /\ conns[2].sv = "pending"
    /\ Len(conns[2].c2s) >= 4

\* C19: the buffer is empty whenever the back end holds no client, so the
\* bytes a tick parses for a client it has just accepted are that client's
\* alone.
C19_BufferClearedWithClient ==
    /\ client = 0 => buffer = <<>>
    /\ ev.op = "poll" /\ ev.accepted # 0 => ev.buf = ev.data

\* The bytes of the commands the tool of the present invocation writes.
WrittenInThisCall ==
    IF feTool = "" THEN {}
    ELSE {DumpsCommand(cmd[1], cmd[2]) : cmd \in ToolCommands(feTool)}

\* C20: the value send_command returns is the response to the command of the
\* same call.  The front end's socket holds nothing to read until the call's
\* command is written whole; the back end writes to a connection only the
\* whole response to the command it parsed from the bytes of the call in
\* progress on it, and into an empty stream; and the value returned is the
\* parse of exactly what the stream then holds, leaving nothing behind for
\* the next call.
C20_ResponseOfSameCall ==
    /\ [](feSock # 0 /\ fePc \in {"idle", "sendall"} =>
              conns[feSock].s2c = <<>>)
    /\ [][ev'.op = "poll" /\ ev'.wrote # <<>> =>
            /\ ev'.conn = feSock
            /\ fePc = "recv"
            /\ feChunks = <<>>
            /\ conns[feSock].s2c = <<>>
            /\ ev'.buf \in WrittenInThisCall
            /\ ev'.cmd = JsonLoads(ev'.buf).val
            /\ ev'.wrote = DumpsResponse(ev'.resp)
            /\ conns'[feSock].s2c = ev'.wrote]_vars
    /\ [][ev'.op = "recv" /\ feRes'.kind = "value" /\ fePc' = "idle" =>
            /\ feRes'.val = ParseBytes(feChunks \o conns[feSock].s2c).val
            /\ feRes'.conn = feSock
            /\ conns'[feSock].s2c = <<>>]_vars

\* The first create_node call failed after its command was written and the
\* back end executed it all the same; the second call, on a new connection,
\* returns the response to its own command: the node it created is foo1.
C20_Witness ==
    /\ feTool = "create_node"
    /\ feCalls = 2
    /\ fePc = "idle"
    /\ feSock = 2
    /\ conns[1].cl = "closed"
    /\ feRes.kind = "value"
    /\ feRes.conn = 2
    /\ feRes.val.kind = "obj"
    /\ feRes.val.k2 = "{name: foo1, path: /obj/foo1, type: geo}"

\* The bytes a call wrote, or would have written.
BytesOf(k) == DumpsCommand(sent[k].cmd[1], sent[k].cmd[2])

\* C21: no send_command call has its command dispatched more than once, and
\* a call that could not connect has it dispatched never.  Every dispatch of
\* the back end is the dispatch of one call: it parsed exactly the bytes
\* that call wrote on the connection the tick read, and it is counted for
\* that call alone.
C21_AtMostOneDispatchPerCall ==
    /\ [](/\ Len(sent) = feCalls
          /\ \A k \in DOMAIN sent :
                /\ sent[k].n <= 1
                /\ sent[k].conn = 0 => sent[k].n = 0)
    /\ [][ev'.op = "poll" /\ ev'.outcome = "dispatch" =>
            \E k \in DOMAIN sent :
                /\ sent[k].conn = ev'.conn
                /\ ev'.buf = BytesOf(k)
                /\ sent[k].n = 0
                /\ sent' = [sent EXCEPT ![k].n = 1, ![k].at = sent'[k].at]]_vars

\* Two calls, each dispatched once: the first failed after writing its
\* command and its socket was closed, the second reconnected.
C21_Witness ==
    /\ Len(sent) = 2
    /\ sent[1].conn = 1 /\ sent[1].n = 1
    /\ sent[2].conn = 2 /\ sent[2].n = 1
    /\ conns[1].cl = "closed"
    /\ fePc = "idle"
    /\ feRes.kind = "value"

\* The calls whose command the back end has dispatched.
DispatchedCalls == {k \in DOMAIN sent : sent[k].n > 0}

\* C22: the back end dispatches the commands of send_command calls in the
\* order the calls wrote them: of two calls dispatched, the earlier call was
\* dispatched first, and no tick dispatches a call's command once the
\* command of a later call has been dispatched.
C22_DispatchInCallOrder ==
    /\ [](/\ \A k \in DOMAIN sent : sent[k].at > 0 <=> k \in DispatchedCalls
          /\ \A j, k \in DispatchedCalls : j < k => sent[j].at < sent[k].at)
    /\ [][\A k \in DOMAIN sent :
              sent'[k].n > sent[k].n =>
                  \A j \in DOMAIN sent : j > k => sent[j].n = 0]_vars

\* The tick that dispatches the command of the first call, whose socket the
\* front end has closed, when the second call has already written its whole
\* command on a new connection that waits to be accepted.
C22_Witness ==
    /\ ev.op = "poll" /\ ev.outcome = "dispatch" /\ ev.conn = 1
    /\ Len(sent) = 2
    /\ sent[1].conn = 1 /\ sent[1].at = 1
    /\ conns[1].cl = "closed"
    /\ sent[2].conn = 2 /\ sent[2].n = 0
    /\ conns[2].sv = "pending"
    /\ conns[2].c2s = BytesOf(2)

\* The global connection object exists and holds no socket.
NotConnected == feGlobal /\ feSock = 0 /\ fePc = "idle"

\* C23: a first get_houdini_connection() that cannot connect, at startup or
\* in a tool, leaves the global object in place without a socket and raises
\* RuntimeError.  A tool invoked in that state when the port takes
\* connections opens a new socket and begins its exchange on it: the
\* command's bytes are what sendall has to write.  No step but a tool's
\* takes the object out of that state, and none discards the object.
C23_ConnectsOnDemand ==
    /\ [][ev'.op \in {"startup", "tool"} /\ ~feGlobal /\ ~CanConnect =>
            /\ NotConnected'
            /\ feRes'.kind = "RuntimeError"
            /\ conns' = conns]_vars
    /\ [][ev'.op = "tool" /\ NotConnected /\ CanConnect =>
            /\ feSock' = nextConn
            /\ conns'[feSock'].cl = "open"
            /\ backlog' = Append(backlog, feSock')
            /\ fePc' = "sendall"
            /\ sent'[feCalls'].conn = feSock'
            /\ feOut' = DumpsCommand(sent'[feCalls'].cmd[1],
                                      sent'[feCalls'].cmd[2])]_vars
    /\ [][NotConnected /\ ~NotConnected' => ev'.op = "tool" /\ feGlobal']_vars

\* The first invocation could not connect and the object was left without a
\* socket; the second, made once the server had started, connected and got
\* the response to its command.
C23_Witness ==
    /\ Len(sent) = 2
    /\ sent[1].conn = 0
    /\ sent[2].conn = 1
    /\ sent[2].n = 1
    /\ ToolReturned
    /\ feRes.kind = "value"
    /\ feRes.conn = 1
    /\ feGlobal

\* C24: while the server is not running it has no listening socket and no
\* client, and no connection waits or is served.  A step taken then is no
\* poll tick: nothing is accepted, no byte a client sent is read, nothing is
\* dispatched on the scene and nothing is written to a client, and the
\* buffer stays as it is.  Only start() ends that, and a start() whose bind
\* fails leaves every field of the server as stop() left it.
C24_StoppedServerIsInert ==
    /\ [](~running =>
              /\ ~lsock
              /\ client = 0
              /\ backlog = <<>>
              /\ \A c \in Conn : conns[c].sv \in {"none", "closed"})
    /\ [][~running =>
            /\ ev'.op # "poll"
            /\ client' = 0
            /\ backlog' = <<>>
            /\ scene' = scene
            /\ buffer' = buffer
            /\ \A c \in Conn : /\ conns'[c].sv = conns[c].sv
                                /\ Len(conns'[c].s2c) <= Len(conns[c].s2c)
            /\ lsock' = running'
            /\ ~running' => beVars' = beVars]_vars
    /\ [][running /\ ~running' =>
            /\ ~lsock' /\ client' = 0 /\ backlog' = <<>>
            /\ \A c \in Conn : conns'[c].sv \in {"none", "closed"}]_vars

\* The server was stopped after it had answered its client, which has the
\* response still to read and bytes still to send: the client's end is
\* open, the server's closed.
C24_Witness ==
    /\ ~running
    /\ rawSock # 0
    /\ conns[rawSock].sv = "closed"
    /\ conns[rawSock].cl = "open"
    /\ conns[rawSock].s2c # <<>>
    /\ rawOut # <<>>
    /\ ev.op = "none"

====
